---- MODULE Spec2Model ----
(***************************************************************************)
(* SinkTravel: the shopping cart, the tour administration and the user     *)
(* accounts and sessions of src/server.js (the last of the three server    *)
(* snapshots in that file, lines 342-927) over its Sequelize/SQLite store. *)
(*                                                                         *)
(* A request handler runs atomically between two awaits; every await in    *)
(* the cart handlers is one SQL statement, and SQLite executes statements  *)
(* one at a time.  So one action of this model is one statement together   *)
(* with the handler code that follows it up to the next statement.         *)
(*                                                                         *)
(* What the schema declarations mean in the store (Sequelize, SQLite):     *)
(*   - ids are INTEGER PRIMARY KEY AUTOINCREMENT: never reused;            *)
(*   - User.hasOne(Cart) adds the column Carts.UserId, a foreign key to    *)
(*     Users, with NO unique index;                                        *)
(*   - Cart.belongsToMany(Tour, {through: CartItem}) adds CartId and       *)
(*     TourId to CartItems, a unique index on (CartId, TourId) and foreign *)
(*     keys ON DELETE CASCADE to Carts and Tours (foreign keys are on);    *)
(*   - User.username has a unique index (unique: true) and no validator:   *)
(*     the empty string is a value like any other;                         *)
(*   - instance.update(values) writes the columns named in values.         *)
(*                                                                         *)
(* A string the program hashes or compares is a sequence of tokens: the    *)
(* plaintext "adminpass" is <<"adminpass">>, the empty string is <<>>, and *)
(* bcrypt.hash puts the token "$2b$10$" in front.  The salt is left out:   *)
(* bcrypt.compare(data, hash) does not depend on which salt was drawn.     *)
(* bcrypt.compare rejects when data is undefined ("data and hash           *)
(* arguments required").                                                   *)
(*                                                                         *)
(* A session is the server-side record express-session keeps for one      *)
(* browser; destroying it leaves that browser with a session that has no   *)
(* user.                                                                   *)
(***************************************************************************)
EXTENDS Integers, Sequences, FiniteSets, TLC

\* ---------------------------------------------------------------- bounds
\* POST /cart/add requests issued in one behaviour (each is one "process").
MaxReq == 2
\* Tour ids are 1..MaxTour: the two seeded tours and those /add-tour creates.
MaxTour == 3
\* Rows of Users: the two seeded users and those /register creates.
MaxUsers == 3
\* Browsers, each with its own session.
MaxSess == 1

\* A behaviour whose requests are all for one user and one tour has one more.
Procs == 1..(MaxReq + 1)
TourIds == 1..MaxTour
\* A CartItem row is created by an add request only, at most one per request.
ItemIds == 1..(MaxReq + 1)
\* Prices an administrator's form may carry.
PriceInputs == {100}
Sessions == 1..MaxSess
\* A field the request body does not carry.
Undefined == <<"">>
\* What the username and password fields of a form may carry.
UsernameInputs == {"admin", "client", "guest", ""}
PasswordInputs == {<<"adminpass">>, <<"clientpass">>, <<>>, Undefined}

\* ---------------------------------------------------------------- seed data
\* req.session.user is undefined: nobody is logged in.
NoUser == 0
\* User.bulkCreate: the first row is the admin, the second the client.
AdminId == 1
ClientId == 2
Users == {AdminId, ClientId}
UserRole(u) == IF u = AdminId THEN "admin" ELSE "client"
\* A request's session: a logged-in user or none.
SessionUsers == Users \cup {NoUser}

\* bcrypt.hash(data, 10), the salt left out.
Hash(data) == <<"$2b$10$">> \o data
\* A comparison that accepts every password.
CompareAlways(data, hash) == TRUE
\* bcrypt.compare(data, hash), for data that is a string.
Compare(data, hash) == hash = Hash(data)
\* JavaScript's truthiness of a password field.
Truthy(x) == x # <<>> /\ x # Undefined

\* User.bulkCreate with individualHooks: beforeCreate hashes each password.
SeedUsers ==
    <<[username |-> "admin", password |-> Hash(<<"adminpass">>), role |-> "admin"],
      [username |-> "client", password |-> Hash(<<"clientpass">>), role |-> "client"]>>
\* req.session.user of a session nobody is logged in to.
NoSession == [id |-> NoUser, username |-> "", role |-> ""]
\* No profile update in flight.
NoUpdate == [pc |-> "idle", id |-> NoUser, username |-> "", newPassword |-> <<>>,
             setPassword |-> FALSE, password |-> <<>>]

\* Tour.bulkCreate: two tours, ids 1 and 2.
SeedPrice1 == 15000
SeedPrice2 == 45000
SeedTours == [t \in {1, 2} |-> IF t = 1 THEN SeedPrice1 ELSE SeedPrice2]

\* No row: findOne's null.
NoCart == 0
NoItem == [id |-> 0, quantity |-> 0]

VARIABLES
    db,     \* the store: tables tours, carts, items and their id counters
    req,    \* req[p]: the add-to-cart request p, its position and locals
    resp,   \* the response of the last single-statement request
    session,\* session[s]: req.session.user of browser s
    prof    \* prof[s]: the profile update of browser s that has read the user

vars == <<db, req, resp, session, prof>>

\* The shape of the state: the rows of Tours, Carts (the owner of cart c is
\* carts[c]) and CartItems, and the locals of each add request.
TypeOK ==
    /\ DOMAIN db.tours \subseteq TourIds
    /\ \A c \in 1..Len(db.carts) : db.carts[c] \in 1..Len(db.users)
    /\ Len(db.users) \in Cardinality(Users)..MaxUsers
    /\ \A u \in 1..Len(db.users) :
           db.users[u].username \in UsernameInputs /\ db.users[u].role = UserRole(u)
    /\ \A s \in Sessions :
           /\ session[s] = NoSession \/ session[s].id \in 1..Len(db.users)
           /\ prof[s].pc \in {"idle", "write"}
    /\ \A i \in db.items :
           i.id \in 1..(db.nextItem - 1) /\ i.CartId \in Nat /\ i.TourId \in Nat
                                         /\ i.quantity \in Nat
    /\ \A i, j \in db.items : i.id = j.id => i = j
    /\ \A p \in Procs :
           /\ req[p].pc \in {"idle", "createCart", "findItem", "write", "done"}
           /\ req[p].res \in {"none", "ok", "error", "redirect"}

\* ---------------------------------------------------------------- helpers
Min(S) == CHOOSE x \in S : \A y \in S : x <= y

RECURSIVE SumLines(_)
SumLines(S) ==
    IF S = {} THEN 0
    ELSE LET l == CHOOSE x \in S : TRUE
         IN  l.price * l.quantity + SumLines(S \ {l})

\* ---------------------------------------------------------------- gates
requireAuth(su) == su # NoUser
requireRole(su, role) == su # NoUser /\ UserRole(su) = role

\* ---------------------------------------------------------------- the store
\* Cart.findOne({where: {UserId}}): SELECT ... LIMIT 1, no ORDER BY; SQLite
\* scans Carts in rowid order, so the user's oldest cart is the one returned.
CartFindOne(d, userId) ==
    LET ids == {c \in 1..Len(d.carts) : d.carts[c] = userId}
    IN  IF ids = {} THEN NoCart ELSE Min(ids)

\* Cart.create({UserId}): the new row's id is the next autoincrement id.
\* Carts are never deleted, so that id is the number of rows.
CartCreate(d, userId) == [d EXCEPT !.carts = Append(@, userId)]

\* CartItem.findOne({where: {CartId, TourId}}).
CartItemFindOne(d, cartId, tourId) ==
    LET found == {i \in d.items : i.CartId = cartId /\ i.TourId = tourId}
    IN  IF found = {} THEN NoItem
        ELSE LET i == CHOOSE x \in found : \A y \in found : x.id <= y.id
             IN  [id |-> i.id, quantity |-> i.quantity]

\* The through table without its unique index.
NoUniqueIndex(d, cartId, tourId) == TRUE

\* The unique index CartItems_CartId_TourId_unique that belongsToMany puts
\* on the through table.
UniqueCartTour(d, cartId, tourId) ==
    \A i \in d.items : ~(i.CartId = cartId /\ i.TourId = tourId)

\* The foreign keys of CartItems: CartId REFERENCES Carts, TourId REFERENCES Tours.
ForeignKeysHold(d, cartId, tourId) ==
    cartId \in 1..Len(d.carts) /\ tourId \in DOMAIN d.tours

\* The column default of CartItem.quantity.
DefaultQuantity == 1

\* An insert whose quantity column has no default.
CartItemCreateNoDefault(d, cartId, tourId) ==
    IF UniqueCartTour(d, cartId, tourId) /\ ForeignKeysHold(d, cartId, tourId)
    THEN [ok |-> TRUE,
          db |-> [d EXCEPT !.items = @ \cup {[id |-> d.nextItem, CartId |-> cartId,
                                              TourId |-> tourId, quantity |-> 0]},
                           !.nextItem = @ + 1]]
    ELSE [ok |-> FALSE, db |-> d]

\* CartItem.create({CartId, TourId}): INSERT; a violated constraint throws.
CartItemCreate(d, cartId, tourId) ==
    IF UniqueCartTour(d, cartId, tourId) /\ ForeignKeysHold(d, cartId, tourId)
    THEN [ok |-> TRUE,
          db |-> [d EXCEPT !.items = @ \cup {[id |-> d.nextItem, CartId |-> cartId,
                                              TourId |-> tourId,
                                              quantity |-> DefaultQuantity]},
                           !.nextItem = @ + 1]]
    ELSE [ok |-> FALSE, db |-> d]

\* An update that does not reach the store.
CartItemUpdateLost(d, id, quantity) == d

\* cartItem.update({quantity}): UPDATE CartItems SET quantity = ... WHERE id = ...;
\* a row deleted in the meantime makes it change nothing, without an error.
CartItemUpdate(d, id, quantity) ==
    [d EXCEPT !.items = {IF i.id = id THEN [i EXCEPT !.quantity = quantity] ELSE i
                         : i \in @}]

\* CartItem.destroy({where: {id}}).
CartItemDestroy(d, id) == [d EXCEPT !.items = {i \in @ : i.id # id}]

\* A foreign key that lets the rows of a deleted tour stay.
NoCascade(items, tourId) == items

\* ON DELETE CASCADE of CartItems.TourId: the rows that survive tour tourId.
CascadeTour(items, tourId) == {i \in items : i.TourId # tourId}

\* Tour.destroy({where: {id}}).
TourDestroy(d, tourId) ==
    [d EXCEPT !.tours = [t \in DOMAIN @ \ {tourId} |-> @[t]],
              !.items = CascadeTour(@, tourId)]

\* Tour.update({price, ...}, {where: {id}}): no row, no change.
TourUpdate(d, tourId, price) ==
    IF tourId \in DOMAIN d.tours THEN [d EXCEPT !.tours[tourId] = price] ELSE d

\* Tour.create({price, ...}).
TourCreate(d, price) ==
    [d EXCEPT !.tours = [t \in DOMAIN @ \cup {d.nextTour} |->
                             IF t = d.nextTour THEN price ELSE @[t]],
              !.nextTour = @ + 1]

\* ---------------------------------------------------------------- POST /cart/add/:tourId
IdleReq == [pc |-> "idle", userId |-> NoUser, tourId |-> 0, cart |-> NoCart,
            cartItem |-> NoItem, res |-> "none"]

\* The handler has responded: its locals are gone.
Done(res) == [IdleReq EXCEPT !.pc = "done", !.res = res]

\* requireAuth, then the handler up to and including Cart.findOne.
AddBegin(d, su, t) ==
    IF ~requireAuth(su)
    THEN [db |-> d, r |-> Done("redirect")]
    ELSE LET c == CartFindOne(d, su)
         IN  [db |-> d,
              r |-> [IdleReq EXCEPT !.pc = IF c = NoCart THEN "createCart"
                                                        ELSE "findItem",
                                    !.userId = su, !.tourId = t, !.cart = c]]

\* if (!cart) cart = await Cart.create({UserId: userId})
AddCreateCart(d, r) ==
    LET d2 == CartCreate(d, r.userId)
    IN  [db |-> d2, r |-> [r EXCEPT !.pc = "findItem", !.cart = Len(d2.carts)]]

\* const cartItem = await CartItem.findOne(...)
AddFindItem(d, r) ==
    [db |-> d, r |-> [r EXCEPT !.pc = "write",
                               !.cartItem = CartItemFindOne(d, r.cart, r.tourId)]]

\* A write whose update puts the line back when its row is gone.
AddWriteRestore(d, r) ==
    IF r.cartItem # NoItem
    THEN [db |-> [d EXCEPT !.items =
                      {i \in @ : i.id # r.cartItem.id}
                          \cup {[id |-> r.cartItem.id, CartId |-> r.cart,
                                 TourId |-> r.tourId,
                                 quantity |-> r.cartItem.quantity + 1]}],
          r |-> Done("ok")]
    ELSE LET c == CartItemCreate(d, r.cart, r.tourId)
         IN  [db |-> c.db,
              r |-> Done(IF c.ok THEN "ok" ELSE "error")]

\* if (cartItem) update quantity + 1 else create; then the JSON response:
\* success, or the catch block's 500.
AddWrite(d, r) ==
    IF r.cartItem # NoItem
    THEN [db |-> CartItemUpdate(d, r.cartItem.id, r.cartItem.quantity + 1),
          r |-> Done("ok")]
    ELSE LET c == CartItemCreate(d, r.cart, r.tourId)
         IN  [db |-> c.db,
              r |-> Done(IF c.ok THEN "ok" ELSE "error")]

\* The statement request r is waiting to execute.
AddStep(d, r) ==
    CASE r.pc = "createCart" -> AddCreateCart(d, r)
      [] r.pc = "findItem"   -> AddFindItem(d, r)
      [] r.pc = "write"      -> AddWrite(d, r)
      [] OTHER               -> [db |-> d, r |-> r]

\* The whole handler with no other request's statement in between.
RunAdd(d, su, t) ==
    LET s0 == AddBegin(d, su, t)
        s1 == AddStep(s0.db, s0.r)
        s2 == AddStep(s1.db, s1.r)
        s3 == AddStep(s2.db, s2.r)
    IN  s3

\* ---------------------------------------------------------------- GET /cart
NoResp == [op |-> "none", status |-> 0, lines |-> {}, total |-> 0, error |-> ""]
Response(op, status) == [NoResp EXCEPT !.op = op, !.status = status]

\* A join that counts a seeded tour at the price it was seeded with.
CartToursFirstPrice(d, cartId) ==
    {[id |-> i.id, TourId |-> i.TourId,
      price |-> IF i.TourId \in DOMAIN SeedTours THEN SeedTours[i.TourId]
                                                ELSE d.tours[i.TourId],
      quantity |-> i.quantity]
     : i \in {x \in d.items : x.CartId = cartId /\ x.TourId \in DOMAIN d.tours}}

\* cart.Tours: the tours joined to the cart through CartItems, each with its
\* current price and the quantity of its CartItem row.
CartTours(d, cartId) ==
    {[id |-> i.id, TourId |-> i.TourId, price |-> d.tours[i.TourId],
      quantity |-> i.quantity]
     : i \in {x \in d.items : x.CartId = cartId /\ x.TourId \in DOMAIN d.tours}}

ViewCart(d, su) ==
    IF ~requireAuth(su) THEN Response("cart", 302)
    ELSE LET cart == CartFindOne(d, su)
             items == IF cart # NoCart THEN CartTours(d, cart) ELSE {}
         IN  [Response("cart", 200) EXCEPT !.lines = items,
                                           !.total = SumLines(items)]

\* ---------------------------------------------------------------- POST /cart/remove/:itemId
RemoveFromCart(d, su, itemId) ==
    IF ~requireAuth(su) THEN [db |-> d, resp |-> Response("remove", 302)]
    ELSE [db |-> CartItemDestroy(d, itemId), resp |-> Response("remove", 200)]

\* ---------------------------------------------------------------- tour administration
\* POST /delete-tour/:id, behind requireRole('admin').
DeleteTour(d, su, tourId) ==
    IF ~requireRole(su, "admin") THEN [db |-> d, resp |-> Response("delete-tour", 403)]
    ELSE [db |-> TourDestroy(d, tourId), resp |-> Response("delete-tour", 302)]

\* POST /edit-tour/:id: no gate in front of the handler.
EditTour(d, tourId, price) ==
    [db |-> TourUpdate(d, tourId, price), resp |-> Response("edit-tour", 302)]

\* POST /add-tour: no gate in front of the handler.
AddTour(d, price) ==
    [db |-> TourCreate(d, price), resp |-> Response("add-tour", 302)]

\* ---------------------------------------------------------------- the Users table
\* User.findOne({where: {username}}): the id of the row, or NoUser.
UserFindOne(d, username) ==
    LET ids == {u \in 1..Len(d.users) : d.users[u].username = username}
    IN  IF ids = {} THEN NoUser ELSE Min(ids)

\* The unique index on Users.username, for a write to row id (NoUser: an insert).
UniqueUsername(d, id, username) ==
    \A u \in 1..Len(d.users) : u # id => d.users[u].username # username

\* A role column whose default is the administrator's role.
AdminRole == "admin"

\* The column default of User.role.
DefaultRole == "client"

\* The beforeCreate hook: a password that is set is stored hashed.
BeforeCreate(password) == IF Truthy(password) THEN Hash(password) ELSE password

\* User.create({username, password}): INSERT; a taken username throws.
UserCreate(d, username, password) ==
    IF UniqueUsername(d, NoUser, username)
    THEN [ok |-> TRUE,
          db |-> [d EXCEPT !.users = Append(@, [username |-> username,
                                                password |-> BeforeCreate(password),
                                                role |-> DefaultRole])]]
    ELSE [ok |-> FALSE, db |-> d]

\* A hook that stores the password as the form gave it.
BeforeUpdateNoHash(changed, password) == password

\* A hook that hashes whatever the password attribute holds.
BeforeUpdateAlways(changed, password) == Hash(password)

\* The beforeUpdate hook: if (user.changed('password')) hash it.
BeforeUpdate(changed, password) == IF changed THEN Hash(password) ELSE password

\* UPDATE Users SET username = ... [, password = ...] WHERE id = ...; a
\* username another row has throws.
UserUpdate(d, u) ==
    IF UniqueUsername(d, u.id, u.username)
    THEN [ok |-> TRUE,
          db |-> [d EXCEPT !.users[u.id].username = u.username,
                           !.users[u.id].password =
                               IF u.setPassword THEN u.password ELSE @]]
    ELSE [ok |-> FALSE, db |-> d]

\* ---------------------------------------------------------------- identity and session
\* A response with the error text its view shows.
ErrorResponse(op, status, error) == [Response(op, status) EXCEPT !.error = error]
SessionUserId(sess) == sess.id

\* The catch block of POST /register: the error page, whatever was thrown.
RegisterCatch == ErrorResponse("register", 500, "Registration error")

\* A registration that creates the new user's cart at once.
RegisterWithCart(d, username, password) ==
    IF username # "" /\ Truthy(password)
    THEN LET c == UserCreate(d, username, password)
         IN  IF c.ok THEN [db |-> CartCreate(c.db, Len(c.db.users)),
                           resp |-> Response("register", 302)]
             ELSE [db |-> d, resp |-> RegisterCatch]
    ELSE [db |-> d,
          resp |-> ErrorResponse("register", 400, "Username and password are required")]

\* POST /register.
Register(d, username, password) ==
    IF username # "" /\ Truthy(password)
    THEN LET c == UserCreate(d, username, password)
         IN  IF c.ok THEN [db |-> c.db, resp |-> Response("register", 302)]
             ELSE [db |-> d, resp |-> RegisterCatch]
    ELSE [db |-> d,
          resp |-> ErrorResponse("register", 400, "Username and password are required")]

\* POST /login: the session user it sets (sess itself when it sets none)
\* and the response.
Login(d, sess, username, password) ==
    LET u == UserFindOne(d, username)
        rejected == [session |-> sess,
                     resp |-> ErrorResponse("login", 400, "Wrong username or password")]
    IN  IF u = NoUser THEN rejected
        ELSE IF password = Undefined
        THEN [session |-> sess, resp |-> ErrorResponse("login", 500, "Login error")]
        ELSE IF Compare(password, d.users[u].password)
        THEN [session |-> [id |-> u, username |-> d.users[u].username,
                           role |-> d.users[u].role],
              resp |-> Response("login", 302)]
        ELSE rejected

\* A logout that leaves the session as it is.
LogoutNoDestroy(sess) == sess

\* GET /logout: req.session.destroy.
Logout(sess) == NoSession

\* POST /profile/update up to user.update's UPDATE statement: requireAuth,
\* User.findByPk, the check of the current password and the beforeUpdate hook.
ProfileUpdateRead(d, sess, username, currentPassword, newPassword) ==
    IF ~requireAuth(SessionUserId(sess))
    THEN [u |-> NoUpdate, resp |-> Response("profile", 302)]
    ELSE LET user == d.users[SessionUserId(sess)]
             changed == Truthy(newPassword)
             password == BeforeUpdate(changed, IF changed THEN newPassword
                                                          ELSE user.password)
         IN  IF changed /\ (~Truthy(currentPassword)
                                \/ ~Compare(currentPassword, user.password))
             THEN [u |-> NoUpdate,
                   resp |-> ErrorResponse("profile", 400, "Wrong current password")]
             ELSE [u |-> [pc |-> "write", id |-> SessionUserId(sess),
                          username |-> username, newPassword |-> newPassword,
                          setPassword |-> changed \/ password # user.password,
                          password |-> password],
                   resp |-> NoResp]

\* The UPDATE statement and the response.
ProfileUpdateWrite(d, u) ==
    LET w == UserUpdate(d, u)
    IN  IF w.ok THEN [db |-> w.db, resp |-> Response("profile", 302)]
        ELSE [db |-> d, resp |-> ErrorResponse("profile", 500, "Profile update error")]

\* ---------------------------------------------------------------- the state machine
\* The state after the start-up block: sync({force: true}) and the seed rows.
Init ==
    /\ db = [tours |-> SeedTours, nextTour |-> 3, carts |-> <<>>, items |-> {},
             nextItem |-> 1, users |-> SeedUsers]
    /\ req = [p \in Procs |-> IdleReq]
    /\ resp = NoResp
    /\ session = [s \in Sessions |-> NoSession]
    /\ prof = [s \in Sessions |-> NoUpdate]

\* Requests are numbered in the order of their arrival.
NextToArrive(p) ==
    req[p].pc = "idle" /\ (IF p = 1 THEN TRUE ELSE req[p - 1].pc # "idle")

\* Request p arrives.
CartAddBegin(p, su, t) ==
    /\ NextToArrive(p)
    /\ LET s == AddBegin(db, su, t)
       IN  db' = s.db /\ req' = [req EXCEPT ![p] = s.r]
    /\ UNCHANGED <<resp, session, prof>>

CartAddCreateCart(p) ==
    /\ req[p].pc = "createCart"
    /\ LET s == AddCreateCart(db, req[p])
       IN  db' = s.db /\ req' = [req EXCEPT ![p] = s.r]
    /\ UNCHANGED <<resp, session, prof>>

CartAddFindItem(p) ==
    /\ req[p].pc = "findItem"
    /\ LET s == AddFindItem(db, req[p])
       IN  db' = s.db /\ req' = [req EXCEPT ![p] = s.r]
    /\ UNCHANGED <<resp, session, prof>>

CartAddWrite(p) ==
    /\ req[p].pc = "write"
    /\ LET s == AddWrite(db, req[p])
       IN  db' = s.db /\ req' = [req EXCEPT ![p] = s.r]
    /\ UNCHANGED <<resp, session, prof>>

\* Request p arrives and runs to its response before any other statement.
CartAddSerial(p, su, t) ==
    /\ NextToArrive(p)
    /\ LET s == RunAdd(db, su, t)
       IN  db' = s.db /\ req' = [req EXCEPT ![p] = s.r]
    /\ UNCHANGED <<resp, session, prof>>

CartView(su) ==
    /\ resp' = ViewCart(db, su)
    /\ UNCHANGED <<db, req, session, prof>>

CartRemove(su, itemId) ==
    /\ LET s == RemoveFromCart(db, su, itemId)
       IN  db' = s.db /\ resp' = s.resp
    /\ UNCHANGED <<req, session, prof>>

TourDelete(su, tourId) ==
    /\ LET s == DeleteTour(db, su, tourId)
       IN  db' = s.db /\ resp' = s.resp
    /\ UNCHANGED <<req, session, prof>>

TourEdit(tourId, price) ==
    /\ LET s == EditTour(db, tourId, price)
       IN  db' = s.db /\ resp' = s.resp
    /\ UNCHANGED <<req, session, prof>>

TourAdd(price) ==
    /\ db.nextTour <= MaxTour
    /\ LET s == AddTour(db, price)
       IN  db' = s.db /\ resp' = s.resp
    /\ UNCHANGED <<req, session, prof>>

UserRegister(username, password) ==
    /\ LET r == Register(db, username, password)
       IN  /\ Len(r.db.users) <= MaxUsers
           /\ db' = r.db /\ resp' = r.resp
    /\ UNCHANGED <<req, session, prof>>

UserLogin(s, username, password) ==
    /\ LET r == Login(db, session[s], username, password)
       IN  session' = [session EXCEPT ![s] = r.session] /\ resp' = r.resp
    /\ UNCHANGED <<db, req, prof>>

UserLogout(s) ==
    /\ session' = [session EXCEPT ![s] = Logout(@)]
    /\ resp' = Response("logout", 302)
    /\ UNCHANGED <<db, req, prof>>

\* A profile update of browser s arrives; s has none in flight.
ProfileRead(s, username, currentPassword, newPassword) ==
    /\ prof[s].pc = "idle"
    /\ LET r == ProfileUpdateRead(db, session[s], username, currentPassword,
                                  newPassword)
       IN  /\ prof' = [prof EXCEPT ![s] = r.u]
           /\ resp' = IF r.u.pc = "write" THEN resp ELSE r.resp
    /\ UNCHANGED <<db, req, session>>

ProfileWrite(s) ==
    /\ prof[s].pc = "write"
    /\ LET r == ProfileUpdateWrite(db, prof[s])
       IN  db' = r.db /\ resp' = r.resp
    /\ prof' = [prof EXCEPT ![s] = NoUpdate]
    /\ UNCHANGED <<req, session>>

\* Add requests in every interleaving of their statements.
AddNext ==
    \E p \in 1..MaxReq :
        \/ \E su \in SessionUsers, t \in TourIds : CartAddBegin(p, su, t)
        \/ CartAddCreateCart(p)
        \/ CartAddFindItem(p)
        \/ CartAddWrite(p)

\* The requests that are one statement each.
OtherNext ==
    \/ \E su \in SessionUsers : CartView(su)
    \/ \E su \in SessionUsers, i \in ItemIds : CartRemove(su, i)
    \/ \E su \in SessionUsers, t \in TourIds : TourDelete(su, t)
    \/ \E t \in TourIds, price \in PriceInputs : TourEdit(t, price)
    \/ \E price \in PriceInputs : TourAdd(price)

Next == AddNext \/ OtherNext

\* Every request, in every interleaving of the statements.
Spec == Init /\ [][Next]_vars

\* The requests that write carts and lines, each running alone from its
\* arrival to its response.
SeqNext ==
    \/ \E p \in 1..MaxReq, su \in SessionUsers, t \in TourIds : CartAddSerial(p, su, t)
    \/ \E su \in SessionUsers, i \in ItemIds : CartRemove(su, i)
    \/ \E su \in SessionUsers, t \in TourIds : TourDelete(su, t)

SpecSeq == Init /\ [][SeqNext]_vars

\* The client's add requests for the first seeded tour and nothing else, in
\* every interleaving of their statements.
SameUser == ClientId
SameTour == 1
SameNext ==
    \E p \in Procs :
        \/ CartAddBegin(p, SameUser, SameTour)
        \/ CartAddCreateCart(p)
        \/ CartAddFindItem(p)
        \/ CartAddWrite(p)

SpecSame == Init /\ [][SameNext]_vars

\* Registration, login, logout and profile updates, in every interleaving
\* of their statements.
AuthNext ==
    \/ \E username \in UsernameInputs, password \in PasswordInputs :
           UserRegister(username, password)
    \/ \E s \in Sessions, username \in UsernameInputs, password \in PasswordInputs :
           UserLogin(s, username, password)
    \/ \E s \in Sessions : UserLogout(s)
    \/ \E s \in Sessions, username \in UsernameInputs :
           \E currentPassword \in PasswordInputs, newPassword \in PasswordInputs :
               ProfileRead(s, username, currentPassword, newPassword)
    \/ \E s \in Sessions : ProfileWrite(s)

SpecAuth == Init /\ [][AuthNext]_vars

\* Login, logout and profile updates of the users there are, in every
\* interleaving of their statements.
ProfileNext ==
    \/ \E s \in Sessions, username \in UsernameInputs, password \in PasswordInputs :
           UserLogin(s, username, password)
    \/ \E s \in Sessions : UserLogout(s)
    \/ \E s \in Sessions, username \in UsernameInputs :
           \E currentPassword \in PasswordInputs, newPassword \in PasswordInputs :
               ProfileRead(s, username, currentPassword, newPassword)
    \/ \E s \in Sessions : ProfileWrite(s)

SpecProfile == Init /\ [][ProfileNext]_vars

\* Login and logout, and the cart requests of the sessions, each cart
\* request running alone from its arrival to its response.
SessionNext ==
    \/ \E s \in Sessions, username \in UsernameInputs, password \in PasswordInputs :
           UserLogin(s, username, password)
    \/ \E s \in Sessions : UserLogout(s)
    \/ \E s \in Sessions : CartView(SessionUserId(session[s]))
    \/ \E s \in Sessions, i \in ItemIds : CartRemove(SessionUserId(session[s]), i)
    \/ \E s \in Sessions, p \in 1..MaxReq, t \in TourIds :
           CartAddSerial(p, SessionUserId(session[s]), t)

SpecSession == Init /\ [][SessionNext]_vars

\* The carts user u owns, and the lines of tour t in them.
CartsOf(d, u) == {c \in 1..Len(d.carts) : d.carts[c] = u}
LinesOf(d, u, t) == {i \in d.items : i.TourId = t /\ i.CartId \in CartsOf(d, u)}

\* An add and a remove of one user for one line, concurrently.  First the
\* add requests 1..MaxReq run one after the other, of any user for any tour;
\* then, if the cart of SameUser has a line for SameTour, request RaceSlot
\* (an add of SameUser for SameTour) and one remove of that line run in
\* every interleaving of their statements.  SameUser has a cart by then, so
\* request RaceSlot never creates one.
RaceSlot == MaxReq + 1
RaceNext ==
    \/ \E p \in 1..MaxReq, su \in SessionUsers, t \in TourIds :
           resp.op # "remove" /\ CartAddSerial(p, su, t)
    \/ /\ LinesOf(db, SameUser, SameTour) # {} \/ resp.op = "remove"
       /\ CartAddBegin(RaceSlot, SameUser, SameTour)
    \/ CartAddFindItem(RaceSlot)
    \/ CartAddWrite(RaceSlot)
    \/ \E i \in LinesOf(db, SameUser, SameTour) :
           /\ req[MaxReq].pc # "idle"
           /\ resp.op # "remove"
           /\ CartRemove(SameUser, i.id)

SpecRace == Init /\ [][RaceNext]_vars

\* Every kind of request of the users: registration, login, logout, profile
\* updates and the cart requests of the sessions (each cart request running
\* alone), with the seeded credentials and a few new names.
NewNames == {"client", "guest"}
NewPassword == <<"clientpass">>
Credentials ==
    {<<"admin", <<"adminpass">> >>, <<"client", NewPassword>>, <<"guest", NewPassword>>}
AllNext ==
    \/ \E username \in NewNames : UserRegister(username, NewPassword)
    \/ \E s \in Sessions, c \in Credentials : UserLogin(s, c[1], c[2])
    \/ \E s \in Sessions : UserLogout(s)
    \/ \E s \in Sessions, username \in NewNames, c \in Credentials :
           \E newPassword \in {<<>>, NewPassword} :
               ProfileRead(s, username, c[2], newPassword)
    \/ \E s \in Sessions : ProfileWrite(s)
    \/ \E s \in Sessions : CartView(SessionUserId(session[s]))
    \/ \E s \in Sessions, i \in ItemIds : CartRemove(SessionUserId(session[s]), i)
    \/ \E s \in Sessions, p \in 1..MaxReq :
           CartAddSerial(p, SessionUserId(session[s]), SameTour)

SpecAll == Init /\ [][AllNext]_vars

\* ---------------------------------------------------------------- properties
InFlight(p) == req[p].pc \notin {"idle", "done"}
NumDone == Cardinality({p \in Procs : req[p].pc = "done"})

\* C1: once N >= 1 concurrent add requests of one user for one tour, started
\* with no line for it, have all completed, there is exactly one line for the
\* user and the tour and its quantity is N.
C1_ConcurrentAdds ==
    (NumDone >= 1 /\ \A p \in Procs : ~InFlight(p))
        => \E l \in LinesOf(db, SameUser, SameTour) :
               /\ LinesOf(db, SameUser, SameTour) = {l}
               /\ l.quantity = NumDone

\* C2: an add that found the line with quantity q leaves it one higher than
\* it is in the store when the add writes: two adds that both read q never
\* both write q + 1.
C2_NoLostUpdate ==
    [][\A p \in Procs :
          (req[p].pc = "write" /\ req[p].cartItem # NoItem /\ req'[p].pc = "done")
              => \A i \in db.items :
                     i.id = req[p].cartItem.id
                         => [i EXCEPT !.quantity = @ + 1] \in db'.items]_vars

\* C3: in every reachable state each user owns at most one cart.
C3_OneCartPerUser == \A u \in Users : Cardinality(CartsOf(db, u)) <= 1

\* C4: a remove request for a line in another user's cart is answered
\* Forbidden and leaves the line in place, quantity unchanged.
C4_RemoveForbidden ==
    [][\A su \in Users : \A i \in db.items :
          (db.carts[i.CartId] # su /\ CartRemove(su, i.id))
              => (resp'.status = 403 /\ i \in db'.items)]_vars

\* C5: in every reachable state there is at most one line for any cart and
\* tour.
C5_OneLinePerCartTour ==
    \A i, j \in db.items : (i.CartId = j.CartId /\ i.TourId = j.TourId) => i = j

\* A request that found no line is about to insert one although another
\* request has inserted it since.
C5_Witness ==
    \E p \in Procs :
        /\ req[p].pc = "write" /\ req[p].cartItem = NoItem
        /\ \E i \in db.items : i.CartId = req[p].cart /\ i.TourId = req[p].tourId

\* C6: an add that runs alone, for a user with no cart and an existing tour,
\* creates exactly one cart of that user and exactly one line, for that cart
\* and the tour, with quantity 1.
C6_FirstAdd ==
    [][\A p \in 1..MaxReq : \A u \in Users : \A t \in DOMAIN db.tours :
          (CartsOf(db, u) = {} /\ CartAddSerial(p, u, t))
              => /\ req'[p].res = "ok"
                 /\ Len(db'.carts) = Len(db.carts) + 1
                 /\ CartsOf(db', u) = {Len(db'.carts)}
                 /\ \E l \in db'.items :
                        /\ db'.items = db.items \cup {l}
                        /\ l \notin db.items
                        /\ l.CartId = Len(db'.carts) /\ l.TourId = t
                        /\ l.quantity = 1]_vars

\* One add has run alone and left the only cart and the only line.
C6_Witness ==
    /\ req[1].res = "ok" /\ req[2].pc = "idle"
    /\ Len(db.carts) = 1
    /\ \E l \in db.items : db.items = {l} /\ l.quantity = 1

\* C7: adds of one user for one existing tour that run one after the other:
\* an add that finds no line for the pair leaves exactly one, with quantity
\* 1; an add that finds the line with quantity q leaves that one line with
\* quantity q + 1; so k adds from no line leave one line with quantity k.
C7_SequentialAdds ==
    [][\A p \in 1..MaxReq : \A u \in Users : \A t \in DOMAIN db.tours :
          CartAddSerial(p, u, t)
              => LET before == LinesOf(db, u, t)
                     after == LinesOf(db', u, t)
                 IN  /\ Cardinality(after) = 1
                     /\ before = {} => \A l \in after : l.quantity = 1
                     /\ \A l \in before :
                            after = {[l EXCEPT !.quantity = @ + 1]}]_vars

\* MaxReq adds for one user and one tour have run one after the other.
C7_Witness ==
    /\ \A p \in 1..MaxReq : req[p].res = "ok"
    /\ \E l \in db.items : db.items = {l} /\ l.quantity = MaxReq

\* Every line of user u, in whichever cart of u it is, with the tour's
\* current price.
UserLines(d, u) ==
    {[id |-> i.id, TourId |-> i.TourId, price |-> d.tours[i.TourId],
      quantity |-> i.quantity]
     : i \in {x \in d.items : x.CartId \in CartsOf(d, u) /\ x.TourId \in DOMAIN d.tours}}

\* C8: the cart view of user u carries as total the sum of price x quantity
\* over all of u's lines, and for a user with no cart it is an empty view
\* with total 0, not an error.
C8_ViewTotal ==
    [][\A su \in Users :
          CartView(su)
              => /\ resp'.status = 200
                 /\ resp'.total = SumLines(UserLines(db, su))
                 /\ CartsOf(db, su) = {} => (resp'.lines = {} /\ resp'.total = 0)]_vars

\* C9: an add for a tour id that matches no tour is rejected before the cart
\* is fetched or created: no statement of it creates a cart or a line.
C9_TourNotFound ==
    [][\A p \in Procs :
          (InFlight(p) /\ req[p].tourId \notin DOMAIN db.tours /\ req'[p] # req[p])
              => (db'.carts = db.carts /\ db'.items = db.items)]_vars

\* C10: in every reachable state every line references a cart that exists
\* and a tour that exists.
C10_NoDanglingLine ==
    \A i \in db.items : i.CartId \in 1..Len(db.carts) /\ i.TourId \in DOMAIN db.tours

\* A request has read the line of a tour that has been deleted since: the
\* line went with the tour.
C10_Witness ==
    \E p \in Procs :
        /\ req[p].pc = "write" /\ req[p].cartItem # NoItem
        /\ req[p].tourId \notin DOMAIN db.tours
        /\ \A i \in db.items : i.id # req[p].cartItem.id

\* C11: with no session user, GET /cart is redirected to /login, while POST
\* /cart/add/:tourId and POST /cart/remove/:itemId are answered with the
\* failure payload {success: false, message} and not with a redirect; in all
\* three cases no cart and no line changes.
C11_Unauthenticated ==
    [][/\ CartView(NoUser) => (resp'.status = 302 /\ resp'.lines = {})
       /\ \A i \in ItemIds :
              CartRemove(NoUser, i)
                  => (resp'.status \notin {200, 302} /\ db' = db)
       /\ \A p \in 1..MaxReq : \A t \in TourIds :
              CartAddBegin(p, NoUser, t)
                  => (req'[p].res = "error" /\ db' = db)]_vars

\* C12: a request to add, edit or delete a tour that comes with no session
\* user or with a client's session is answered 403 and leaves the set of
\* tours and every price as they were.
C12_AdminOnly ==
    [][\A su \in SessionUsers :
          ~requireRole(su, "admin")
              => \A t \in TourIds : \A price \in PriceInputs :
                     (TourAdd(price) \/ TourEdit(t, price) \/ TourDelete(su, t))
                         => (resp'.status = 403 /\ db'.tours = db.tours)]_vars

\* C13: an add that reports failure leaves the carts and the lines exactly
\* as they were before the request: no cart it created stays behind.
C13_FailedAddNoEffect ==
    [][\A p \in 1..MaxReq : \A su \in Users : \A t \in TourIds :
          (CartAddSerial(p, su, t) /\ req'[p].res = "error")
              => (db'.carts = db.carts /\ db'.items = db.items)]_vars

\* C14: in every reachable state every line has quantity >= 1.
C14_QuantityPositive == \A i \in db.items : i.quantity >= 1

\* A line an insert created and an update has written since.
C14_Witness == \E i \in db.items : i.quantity > DefaultQuantity

\* The user row that username and password authenticate.
CredentialsMatch(d, username, password) ==
    \E u \in 1..Len(d.users) :
        /\ d.users[u].username = username
        /\ password # Undefined /\ Compare(password, d.users[u].password)

\* C15: a login that names an existing user with a password that is not
\* that user's, and a login that names no user, have the identical outcome:
\* the same status and the same error, and the session gets no user.
C15_LoginUniform ==
    [][\A s \in Sessions : \A username \in UsernameInputs :
          \A password \in PasswordInputs :
              (UserLogin(s, username, password)
                   /\ ~CredentialsMatch(db, username, password))
                  => /\ resp' = ErrorResponse("login", 400, "Wrong username or password")
                     /\ session' = session]_vars

\* C16: a registration that names an existing username fails with an error
\* of its own, distinguishable from the answer to a storage failure; it
\* creates no user and leaves every user's password hash and role as they
\* were.
C16_DuplicateUsername ==
    [][\A username \in UsernameInputs : \A password \in PasswordInputs :
          (UserRegister(username, password)
               /\ username # "" /\ Truthy(password)
               /\ UserFindOne(db, username) # NoUser)
              => /\ db'.users = db.users
                 /\ resp'.status \notin {0, 302}
                 /\ resp' # RegisterCatch]_vars

\* C17: once a profile update has changed a user's password to p2, a login
\* with the user's name and p2 succeeds as that user, and a login with any
\* other password, the one that authenticated before included, is rejected.
C17_PasswordChange ==
    [][\A s \in Sessions :
          (ProfileWrite(s) /\ Truthy(prof[s].newPassword) /\ resp'.status = 302)
              => LET id == prof[s].id
                     p2 == prof[s].newPassword
                     name == db'.users[id].username
                 IN  /\ Login(db', NoSession, name, p2).session.id = id
                     /\ Login(db', NoSession, name, p2).resp.status = 302
                     /\ \A p1 \in PasswordInputs \ {p2, Undefined} :
                            /\ Login(db', NoSession, name, p1).session = NoSession
                            /\ Login(db', NoSession, name, p1).resp.status = 400]_vars

\* A seeded user is logged in, the profile update has answered with its
\* redirect, and the user's password is no longer the one of the seed.
C17_Witness ==
    \E s \in Sessions : \E u \in DOMAIN SeedUsers :
        /\ session[s].id = u
        /\ resp = Response("profile", 302)
        /\ db.users[u].password # SeedUsers[u].password
        /\ \E p2 \in PasswordInputs : Truthy(p2) /\ Compare(p2, db.users[u].password)

\* C18: a profile update that carries no new password leaves the stored
\* hash as it is, so the password that authenticated before still does; a
\* stored hash changes only in the write of a profile update of that user
\* that carries a new password.
C18_HashKept ==
    [][/\ \A s \in Sessions :
              (ProfileWrite(s) /\ ~Truthy(prof[s].newPassword))
                  => /\ \A u \in 1..Len(db.users) :
                            db'.users[u].password = db.users[u].password
                     /\ \A p \in PasswordInputs \ {Undefined} :
                            Compare(p, db.users[prof[s].id].password)
                                => Login(db', NoSession,
                                         db'.users[prof[s].id].username, p).session.id
                                       = prof[s].id
       /\ \A u \in 1..Len(db.users) :
              db'.users[u].password # db.users[u].password
                  => \E s \in Sessions :
                         /\ ProfileWrite(s) /\ prof[s].id = u
                         /\ Truthy(prof[s].newPassword)]_vars

\* A profile update without a new password has renamed a seeded user, whose
\* hash is still the one of the seed.
C18_Witness ==
    \E s \in Sessions : \E u \in DOMAIN SeedUsers :
        /\ session[s].id = u
        /\ resp = Response("profile", 302)
        /\ db.users[u].username # SeedUsers[u].username
        /\ db.users[u].password = SeedUsers[u].password

\* C19: a logout leaves the session with no user; while a session has no
\* user, every cart request on it (view, add, remove) is turned away by
\* requireAuth and changes nothing; the session gets a user again only by a
\* login with matching credentials; and the logout of a session that has no
\* user leaves the state it found.
C19_LoggedOut ==
    [][\A s \in Sessions :
          /\ UserLogout(s)
                 => /\ session'[s] = NoSession
                    /\ session[s] = NoSession => (session' = session /\ db' = db)
          /\ session[s] = NoSession
                 => /\ CartView(SessionUserId(session[s]))
                           => (resp'.status = 302 /\ resp'.lines = {})
                    /\ \A i \in ItemIds :
                           CartRemove(SessionUserId(session[s]), i)
                               => (resp'.status = 302 /\ db' = db)
                    /\ \A p \in 1..MaxReq : \A t \in TourIds :
                           CartAddSerial(p, SessionUserId(session[s]), t)
                               => (req'[p].res = "redirect" /\ db' = db)
          /\ (session[s] = NoSession /\ session'[s] # NoSession)
                 => \E username \in UsernameInputs, password \in PasswordInputs :
                        /\ UserLogin(s, username, password)
                        /\ CredentialsMatch(db, username, password)]_vars

\* The first add request was served, the second was turned away, the last
\* response is the redirect of a cart view, and no session has a user.
C19_Witness ==
    /\ \A s \in Sessions : session[s] = NoSession
    /\ req[1].res = "ok" /\ req[2].res = "redirect"
    /\ resp = Response("cart", 302)

\* C20: the cart view counts every line of the cart at the price its tour
\* has when the view is made, whatever the price was when the line was
\* added: after a price change from p to p' a line with quantity q counts
\* p' x q; a cart row holds its owner only and a line holds no price and no
\* total.
C20_PriceAtViewTime ==
    [][\A su \in Users :
          CartView(su)
              => LET shown == {i \in db.items : i.CartId = CartFindOne(db, su)}
                 IN  /\ \A i \in shown :
                            \E l \in resp'.lines :
                                /\ l.id = i.id /\ l.quantity = i.quantity
                                /\ l.price = db.tours[i.TourId]
                     /\ resp'.total =
                            SumLines({[id |-> i.id, price |-> db.tours[i.TourId],
                                       quantity |-> i.quantity] : i \in shown})
                     /\ \A i \in db.items :
                            DOMAIN i = {"id", "CartId", "TourId", "quantity"}
                     /\ \A c \in 1..Len(db.carts) : db.carts[c] \in Users]_vars

\* The view shows a line of a seeded tour at the price an edit gave the tour.
C20_Witness ==
    /\ resp.op = "cart" /\ resp.status = 200
    /\ \E l \in resp.lines :
           /\ l.TourId \in DOMAIN SeedTours
           /\ l.price \in PriceInputs /\ l.price # SeedTours[l.TourId]
           /\ resp.total >= l.price * l.quantity
           /\ \E i \in db.items : i.id = l.id /\ db.tours[i.TourId] = l.price

\* C21: the carts of a user change only in an add request of that user's
\* session; registration, login, logout, the cart view, a remove and a
\* profile update create no cart, so a user who has issued no add has none.
C21_CartOnlyByAdd ==
    [][\A u \in 1..MaxUsers :
          CartsOf(db', u) # CartsOf(db, u)
              => \E s \in Sessions, p \in 1..MaxReq, t \in TourIds :
                     session[s].id = u /\ CartAddSerial(p, u, t)]_vars

\* A registered user is logged in and has been shown an empty cart view;
\* another user has a cart, this one has none.
C21_Witness ==
    \E s \in Sessions :
        /\ session[s].id > Len(SeedUsers)
        /\ resp.op = "cart" /\ resp.status = 200
        /\ CartsOf(db, session[s].id) = {}
        /\ Len(db.carts) > 0

\* C22: in every reachable state every stored username is non-empty and no
\* two users have the same username.
C22_UsernamesValid ==
    /\ \A u \in 1..Len(db.users) : db.users[u].username # ""
    /\ \A u, v \in 1..Len(db.users) :
           db.users[u].username = db.users[v].username => u = v

\* C23: a step of an add request of user U for tour T and a remove request
\* of user U leave the carts and the lines of every other user as they were,
\* and the add step leaves the lines of U's carts for every tour other than T
\* as they were.
C23_OnlyOwnCart ==
    [][/\ \A p \in 1..MaxReq :
              \A u \in Users, t \in TourIds :
                  (/\ \/ CartAddBegin(p, u, t)
                      \/ /\ req[p].userId = u /\ req[p].tourId = t
                         /\ CartAddCreateCart(p) \/ CartAddFindItem(p) \/ CartAddWrite(p))
                      => /\ \A v \in Users \ {u} :
                                /\ CartsOf(db', v) = CartsOf(db, v)
                                /\ \A x \in TourIds : LinesOf(db', v, x) = LinesOf(db, v, x)
                         /\ \A x \in TourIds \ {t} : LinesOf(db', u, x) = LinesOf(db, u, x)
       /\ \A u \in Users, i \in ItemIds :
              CartRemove(u, i)
                  => \A v \in Users \ {u} :
                         /\ CartsOf(db', v) = CartsOf(db, v)
                         /\ \A x \in TourIds : LinesOf(db', v, x) = LinesOf(db, v, x)]_vars

\* C24: when the add of U for T and the remove of the existing line of
\* (U, T) have both been answered, the line is absent or U has exactly one
\* line for T and its quantity is 1, in every interleaving: no line with
\* the old quantity plus one and no second line.
C24_AddRemoveSerializable ==
    (req[RaceSlot].pc = "done" /\ resp.op = "remove")
        => \/ LinesOf(db, SameUser, SameTour) = {}
           \/ /\ Cardinality(LinesOf(db, SameUser, SameTour)) = 1
              /\ \A i \in LinesOf(db, SameUser, SameTour) : i.quantity = 1

\* The add has read the line with quantity 2, the remove has then deleted
\* it, and the add is about to write quantity 3 to the row that is gone.
C24_Witness ==
    /\ req[RaceSlot].pc = "write"
    /\ req[RaceSlot].cartItem # NoItem
    /\ req[RaceSlot].cartItem.quantity = 2
    /\ resp.op = "remove"
    /\ LinesOf(db, SameUser, SameTour) = {}

\* C25: a profile update that carries a new password and a current
\* password that is missing or is not the user's is answered 400 and
\* changes nothing, whatever username it carries: no user row changes and
\* the request leaves no update behind.
C25_WrongCurrentPassword ==
    [][\A s \in Sessions : \A username \in UsernameInputs :
          \A currentPassword \in PasswordInputs, newPassword \in PasswordInputs :
              (/\ session[s] # NoSession /\ Truthy(newPassword)
               /\ \/ ~Truthy(currentPassword)
                  \/ db.users[session[s].id].password # Hash(currentPassword)
               /\ ProfileRead(s, username, currentPassword, newPassword))
                  => /\ resp' = ErrorResponse("profile", 400, "Wrong current password")
                     /\ db' = db
                     /\ prof'[s] = NoUpdate]_vars

\* A logged-in user's profile update has been answered with the error about
\* the current password, and that user's row is as the seed left it.
C25_Witness ==
    \E s \in Sessions :
        /\ session[s].id \in DOMAIN SeedUsers
        /\ resp = ErrorResponse("profile", 400, "Wrong current password")
        /\ prof[s] = NoUpdate
        /\ db.users[session[s].id] = SeedUsers[session[s].id]

\* C26: in every reachable state every seeded user has the role of the seed
\* and every user a registration created is a client: the administrators
\* are those of the seed.
C26_RolesFixed ==
    /\ \A u \in 1..Len(db.users) :
           db.users[u].role = IF u \in DOMAIN SeedUsers THEN SeedUsers[u].role
                                                        ELSE "client"
    /\ {u \in 1..Len(db.users) : db.users[u].role = "admin"}
           = {u \in DOMAIN SeedUsers : SeedUsers[u].role = "admin"}

\* A registered user is logged in, has a cart, and the profile update of
\* that session has been answered with its redirect.
C26_Witness ==
    \E s \in Sessions :
        /\ session[s].id > Len(SeedUsers)
        /\ CartsOf(db, session[s].id) # {}
        /\ resp = Response("profile", 302)

\* C27: in every reachable state the id, username and role a session
\* carries are those of the stored user with that id, also after the user
\* has changed the username by a profile update.
C27_SessionMatchesUser ==
    \A s \in Sessions :
        session[s] # NoSession
            => /\ session[s].id \in 1..Len(db.users)
               /\ session[s].username = db.users[session[s].id].username
               /\ session[s].role = db.users[session[s].id].role

====
